---- MODULE Spec2Model ----
(***************************************************************************)
(* A model of crocolakeloader.loader.Loader: the resolution of the         *)
(* requested databases on disk, the global schema, the filter normaliser,  *)
(* the per-database read and the concatenated dataframe.                   *)
(***************************************************************************)
EXTENDS Integers, Sequences, FiniteSets, TLC

\* ------------------------------------------------------------------ bounds

\* The longest physical schema of a database on disk.
MaxCols == 2
\* The longest selected_variables list of a session.
MaxSel == 2
\* The most directories a glob of one database's codename returns.
MaxDirs == 2
\* The most comparisons of a filter handed to __validate_filters, and the most
\* conjunctions they are grouped in.
MaxFilterLen == 3
MaxGroups == 2
\* The longest global schema add_units_to_schema is called on.
MaxUnitFields == 3

\* ----------------------------------------------------------------- helpers

Range(s) == {s[i] : i \in DOMAIN s}

SeqsUpTo(S, n) == UNION {[1..k -> S] : k \in 0..n}

IsInjective(s) == \A i, j \in DOMAIN s : s[i] = s[j] => i = j

\* [x for x in s if Keep(x)]
RECURSIVE SelectSeqBy(_, _)
SelectSeqBy(s, keep) ==
    IF s = <<>> THEN <<>>
    ELSE IF Head(s) \in keep
         THEN <<Head(s)>> \o SelectSeqBy(Tail(s), keep)
         ELSE SelectSeqBy(Tail(s), keep)

\* ----------------------------------------------------------------- catalog

\* params.databases: the catalog of database ids, in catalog order.
Databases == <<"ARGO", "GLODAP">>

\* Ids a caller may hand over: the catalog's and one that is not in it.
RequestIds == Range(Databases) \cup {"a"}

\* The directories under db_rootpath whose name holds a database's codename
\* (params.databases_codenames), in the order glob returns them.
DirNames(db) ==
    IF db = "ARGO" THEN <<"root/ARGO_v1", "root/ARGO_v2", "root/ARGO_v3">>
                   ELSE <<"root/GLODAP_v1", "root/GLODAP_v2", "root/GLODAP_v3">>

\* Column names of the databases; W is a name no database has.
Columns == {"X", "Y", "DB_NAME"}
RequestNames == Columns \cup {"W"}

\* pyarrow types a database's _common_metadata may declare for a column: X is
\* an integer whose width depends on the database, the others are strings.
TypeChoices(name) == IF name = "X" THEN {"int16", "int32"} ELSE {"string"}

NoUnits == "none"

Field(n, t) == [name |-> n, type |-> t, units |-> NoUnits]

\* ------------------------------------------------------------------ values

NullV == [null |-> TRUE, i |-> 0, s |-> ""]
IntV(n) == [null |-> FALSE, i |-> n, s |-> ""]
StrV(str) == [null |-> FALSE, i |-> 0, s |-> str]

\* Values of the integer column: one every width holds, one only int32 holds.
SmallInt == 5
BigInt == 40000

\* -------------------------------------------------------------- filesystem

\* Physical schemas: up to MaxCols distinct columns in any order, each with one
\* of the types its name may carry.
Schemas ==
    {s \in UNION {[1..k -> {Field(n, t) : n \in Columns, t \in {"int16", "int32", "string"}}]
                    : k \in 1..MaxCols} :
        /\ \A i \in DOMAIN s : s[i].type \in TypeChoices(s[i].name)
        /\ \A i, j \in DOMAIN s : s[i].name = s[j].name => i = j}

\* A row of db's parquet files: x in the integer column, "a" in Y, the
\* database's name in DB_NAME.
DiskRow(db, schema, x) ==
    [i \in DOMAIN schema |->
        IF schema[i].name = "X" THEN IntV(x)
        ELSE IF schema[i].name = "DB_NAME" THEN StrV(db)
        ELSE StrV("a")]

\* The rows a database holds: one row of small values and, where the integer
\* column is 32 bits wide, a second row with a value 16 bits cannot hold.
DiskRows(db, schema) ==
    IF \E i \in DOMAIN schema : schema[i].name = "X" /\ schema[i].type = "int32"
    THEN <<DiskRow(db, schema, SmallInt), DiskRow(db, schema, BigInt)>>
    ELSE <<DiskRow(db, schema, SmallInt)>>

\* What db_rootpath holds for one database: the directories matching its
\* codename and, for the first of them, whether _common_metadata is there, the
\* schema it declares and the rows of its parquet files. A database is absent
\* (no directory), ambiguous (several), without metadata, or usable.
OnDisk(db) ==
    {[dirs |-> SubSeq(DirNames(db), 1, n), meta |-> FALSE, schema |-> <<>>, rows |-> <<>>]
        : n \in 0..MaxDirs}
    \cup
    {[dirs |-> SubSeq(DirNames(db), 1, 1), meta |-> TRUE, schema |-> s,
      rows |-> DiskRows(db, s)] : s \in Schemas}

OnDiskChoices == [db \in Range(Databases) |-> OnDisk(db)]

FileSystems ==
    {f \in [Range(Databases) -> UNION {OnDiskChoices[db] : db \in Range(Databases)}] :
        \A db \in Range(Databases) : f[db] \in OnDiskChoices[db]}

\* glob.glob(os.path.join(db_rootpath, "*" + codename + "*"))
GlobDb(fsys, db) == IF db \in DOMAIN fsys THEN fsys[db].dirs ELSE <<>>

\* glob.glob(path + "/_common_metadata"): the one file, or nothing.
GlobMeta(fsys, db, path) ==
    IF db \in DOMAIN fsys /\ fsys[db].meta /\ fsys[db].dirs # <<>> /\ fsys[db].dirs[1] = path
    THEN <<path>> ELSE <<>>

\* pq.read_schema(path + "/_common_metadata")
ReadSchema(fsys, db) == fsys[db].schema

Names(schema) == [i \in DOMAIN schema |-> schema[i].name]

\* ------------------------------------------------------------------- state

VARIABLES
    fs,                 \* the directories under db_rootpath
    pc,                 \* "new", "ready" (a constructed Loader) or "failed"
    args,               \* the arguments the constructor was called with
    err,                \* the error the last operation raised, "" if none
    warned,             \* the number of warnings.warn calls of the last operation
    db_list,            \* self.db_list
    db_type,            \* self.db_type
    db_paths,           \* self.db_paths
    filters,            \* self.filters
    global_schema,      \* self.global_schema
    selected_variables, \* self.selected_variables
    ddf,                \* the lazy dataframe get_dataframe returned last
    table,              \* the frames the last operation materialised, if it did
    vf                  \* the last call of __validate_filters: arguments and result

vars == <<fs, pc, args, err, warned, db_list, db_type, db_paths, filters, global_schema,
          selected_variables, ddf, table, vf>>

\* ------------------------------------------------------ python values

\* An argument of the constructor: None, a list of strings, one string (v holds
\* it alone) or an object of another type.
NoneArg == [kind |-> "None", v |-> <<>>]
ListArg(l) == [kind |-> "list", v |-> l]
StrArg(str) == [kind |-> "str", v |-> <<str>>]
OtherArg == [kind |-> "other", v |-> <<>>]

\* self.filters: None or a list.
NoneFilter == [isNone |-> TRUE, v |-> <<>>]
ListFilter(l) == [isNone |-> FALSE, v |-> l]

\* A pyarrow schema, or None.
NoneSchema == [isNone |-> TRUE, fields |-> <<>>]
PaSchema(fields) == [isNone |-> FALSE, fields |-> fields]

\* A dict with one more item: d[k] = x.
DictSet(d, k, x) == [y \in DOMAIN d \cup {k} |-> IF y = k THEN x ELSE d[y]]
EmptyDict == [y \in {} |-> ""]

\* str.upper() on the strings the model hands over.
Upper(str) ==
    IF str = "phy" THEN "PHY"
    ELSE IF str = "bgc" THEN "BGC"
    ELSE IF str = "xyz" THEN "XYZ"
    ELSE str

\* ------------------------------------------------------- __set_db_rootpaths

RECURSIVE SetDbRootpathsFrom(_, _, _)
SetDbRootpathsFrom(dblist, fsys, acc) ==
    IF dblist = <<>> THEN acc
    ELSE LET db == Head(dblist)
             paths == GlobDb(fsys, db)
         IN  IF Len(paths) > 1
             THEN [acc EXCEPT !.err = "ValueError: multiple versions of database"]
             ELSE IF Len(paths) = 0
             THEN SetDbRootpathsFrom(Tail(dblist), fsys, [acc EXCEPT !.warns = @ + 1])
             ELSE SetDbRootpathsFrom(Tail(dblist), fsys,
                     [acc EXCEPT !.db_paths = DictSet(@, db, paths[1])])

\* A mutant: an ambiguous database takes its first directory instead of raising.
SetDbRootpathsFirstMatch(dblist, fsys) ==
    [err |-> "",
     db_paths |-> [db \in {d \in Range(dblist) : Len(GlobDb(fsys, d)) > 0}
                     |-> GlobDb(fsys, db)[1]],
     warns |-> Cardinality({k \in DOMAIN dblist : Len(GlobDb(fsys, dblist[k])) = 0})]

SetDbRootpaths(dblist, fsys) ==
    SetDbRootpathsFrom(dblist, fsys, [err |-> "", db_paths |-> EmptyDict, warns |-> 0])

\* --------------------------------------------------------- __update_db_list

RECURSIVE UpdateDbListFrom(_, _, _, _)
UpdateDbListFrom(dblist, dbpaths, fsys, acc) ==
    IF dblist = <<>> THEN acc
    ELSE LET db == Head(dblist)
         IN  IF db \notin DOMAIN dbpaths
             THEN UpdateDbListFrom(Tail(dblist), dbpaths, fsys, [acc EXCEPT !.warns = @ + 1])
             ELSE LET paths == GlobMeta(fsys, db, dbpaths[db])
                  IN  IF Len(paths) > 1
                      THEN [acc EXCEPT !.err = "ValueError: multiple versions of database"]
                      ELSE IF Len(paths) = 0
                      THEN UpdateDbListFrom(Tail(dblist), dbpaths, fsys,
                              [acc EXCEPT !.warns = @ + 1])
                      ELSE UpdateDbListFrom(Tail(dblist), dbpaths, fsys,
                              [acc EXCEPT !.db_list = Append(@, db)])

\* A mutant: the check for an empty updated list is missing.
UpdateDbListNoEmptyCheck(dblist, dbpaths, fsys) ==
    UpdateDbListFrom(dblist, dbpaths, fsys, [err |-> "", db_list |-> <<>>, warns |-> 0])

UpdateDbList(dblist, dbpaths, fsys) ==
    LET r == UpdateDbListFrom(dblist, dbpaths, fsys,
                              [err |-> "", db_list |-> <<>>, warns |-> 0])
    IN  IF r.err # "" THEN r
        ELSE IF Len(r.db_list) = 0
        THEN [r EXCEPT !.err = "ValueError: no database found"]
        ELSE r

\* ---------------------------------------------------- __build_global_schema

\* A mutant: a later declaration of a name replaces the recorded field.
RECURSIVE AppendNewFieldsLastWins(_, _)
AppendNewFieldsLastWins(fields, dbschema) ==
    IF dbschema = <<>> THEN fields
    ELSE IF Head(dbschema).name \notin Range(Names(fields))
         THEN AppendNewFieldsLastWins(Append(fields, Head(dbschema)), Tail(dbschema))
         ELSE AppendNewFieldsLastWins(
                 [i \in DOMAIN fields |->
                     IF fields[i].name = Head(dbschema).name THEN Head(dbschema)
                     ELSE fields[i]],
                 Tail(dbschema))

\* global_schema.append(field) for each field of db_schema whose name is new.
RECURSIVE AppendNewFields(_, _)
AppendNewFields(fields, dbschema) ==
    IF dbschema = <<>> THEN fields
    ELSE IF Head(dbschema).name \notin Range(Names(fields))
         THEN AppendNewFields(Append(fields, Head(dbschema)), Tail(dbschema))
         ELSE AppendNewFields(fields, Tail(dbschema))

RECURSIVE BuildGlobalSchemaFrom(_, _, _, _)
BuildGlobalSchemaFrom(dblist, dbpaths, fsys, acc) ==
    IF dblist = <<>> THEN acc
    ELSE LET db == Head(dblist)
         IN  IF db \notin DOMAIN dbpaths
             THEN BuildGlobalSchemaFrom(Tail(dblist), dbpaths, fsys,
                     [acc EXCEPT !.warns = @ + 1])
             ELSE LET paths == GlobMeta(fsys, db, dbpaths[db])
                  IN  IF Len(paths) > 1
                      THEN [acc EXCEPT !.err = "ValueError: multiple versions of database"]
                      ELSE IF Len(paths) = 0
                      THEN BuildGlobalSchemaFrom(Tail(dblist), dbpaths, fsys,
                              [acc EXCEPT !.warns = @ + 1])
                      ELSE LET db_schema == ReadSchema(fsys, db)
                           IN  BuildGlobalSchemaFrom(Tail(dblist), dbpaths, fsys,
                                  [acc EXCEPT !.schema =
                                      IF @.isNone THEN PaSchema(db_schema)
                                      ELSE PaSchema(AppendNewFields(@.fields, db_schema))])

BuildGlobalSchema(dblist, dbpaths, fsys) ==
    BuildGlobalSchemaFrom(dblist, dbpaths, fsys,
                          [err |-> "", schema |-> NoneSchema, warns |-> 0])

\* ------------------------------------------------------ __validate_filters

\* The elements of a filter list: a tuple (variable, operator, literal) or a
\* list of such tuples.
Tup(var, op, val) == [kind |-> "tuple", var |-> var, op |-> op, val |-> val, items |-> <<>>]
Lst(items) == [kind |-> "list", var |-> "", op |-> "", val |-> 0, items |-> items]

\* flatten: the tuples of a filter, flat or nested, in the order written.
RECURSIVE AllComparisons(_)
AllComparisons(flt) ==
    IF flt = <<>> THEN <<>>
    ELSE IF Head(flt).kind = "tuple"
         THEN <<Head(flt)>> \o AllComparisons(Tail(flt))
         ELSE Head(flt).items \o AllComparisons(Tail(flt))

\* A mutant: every comparison is kept, whatever its column.
KeepValidAll(filtergroup, valid_cols) == filtergroup

\* valid_filter_group: the comparisons of one inner list whose column is valid.
RECURSIVE KeepValid(_, _)
KeepValid(filtergroup, valid_cols) ==
    IF filtergroup = <<>> THEN <<>>
    ELSE IF Head(filtergroup).var \in Range(valid_cols)
         THEN <<Head(filtergroup)>> \o KeepValid(Tail(filtergroup), valid_cols)
         ELSE KeepValid(Tail(filtergroup), valid_cols)

\* The comparisons of one inner list that go to discarded_filters.
RECURSIVE Discard(_, _)
Discard(filtergroup, valid_cols) ==
    IF filtergroup = <<>> THEN <<>>
    ELSE IF Head(filtergroup).var \in Range(valid_cols)
         THEN Discard(Tail(filtergroup), valid_cols)
         ELSE <<Head(filtergroup)>> \o Discard(Tail(filtergroup), valid_cols)

\* The loop over the inner lists: acc holds valid_filters and discarded_filters.
RECURSIVE ValidateGroups(_, _, _)
ValidateGroups(groups, valid_cols, acc) ==
    IF groups = <<>> THEN acc
    ELSE LET valid_filter_group == KeepValid(Head(groups), valid_cols)
             next == [valid |-> IF valid_filter_group # <<>>
                                THEN Append(acc.valid, valid_filter_group)
                                ELSE acc.valid,
                      discarded |-> acc.discarded \o Discard(Head(groups), valid_cols)]
         IN  ValidateGroups(Tail(groups), valid_cols, next)

\* A mutant: a single remaining inner list stays wrapped in the outer list.
CollapseNever(valid_filters) == [k \in DOMAIN valid_filters |-> Lst(valid_filters[k])]

\* "If there is only one inner list, return a list instead of a list of lists"
Collapse(valid_filters) ==
    IF Len(valid_filters) = 1 THEN valid_filters[1]
    ELSE [k \in DOMAIN valid_filters |-> Lst(valid_filters[k])]

\* __validate_filters(filters, valid_cols): the list returned and the filters
\* warned about, one warnings.warn call each.
ValidateFilters(flt, valid_cols) ==
    IF flt = <<>>
    THEN [err |-> "IndexError: list index out of range", result |-> <<>>,
          discarded |-> <<>>, warns |-> 0]
    ELSE LET groups == IF flt[1].kind = "tuple" THEN <<flt>>
                       ELSE [k \in DOMAIN flt |-> flt[k].items]
             r == ValidateGroups(groups, valid_cols, [valid |-> <<>>, discarded |-> <<>>])
         IN  [err |-> "", result |-> Collapse(r.valid), discarded |-> r.discarded,
              warns |-> Len(r.discarded)]

\* ----------------------------------------------------------------- __init__

\* The fields of a Loader that was not constructed.
NoDbType == ""

NoLoader(e, w) ==
    [err |-> e, warns |-> w, db_list |-> <<>>, db_type |-> NoDbType,
     db_paths |-> EmptyDict, filters |-> NoneFilter, global_schema |-> NoneSchema,
     selected_variables |-> <<>>]

\* "set list of databases to read"
CtorDbList(dl) ==
    IF dl.kind \notin {"None", "list", "str"}
    THEN [err |-> "ValueError: db_list must be a list or a string", db_list |-> <<>>]
    ELSE LET l == IF dl.kind = "None" THEN Databases ELSE dl.v
         IN  IF \A k \in DOMAIN l : l[k] \in Range(Databases)
             THEN [err |-> "", db_list |-> l]
             ELSE [err |-> "ValueError: db_list can only take values in databases",
                   db_list |-> <<>>]

\* "set database type"; an argument that is neither None nor a string leaves
\* self.db_type unset and the print after it raises.
CtorDbType(dt) ==
    IF dt.kind = "None" THEN [err |-> "", db_type |-> "PHY"]
    ELSE IF dt.kind = "str"
    THEN IF Upper(dt.v[1]) \in {"PHY", "BGC"}
         THEN [err |-> "", db_type |-> Upper(dt.v[1])]
         ELSE [err |-> "ValueError: db_type must be one of PHY, BGC", db_type |-> NoDbType]
    ELSE [err |-> "AttributeError: db_type", db_type |-> NoDbType]

\* A mutant: an empty list of selected variables is stored as it is.
CtorSelectedAcceptsEmpty(sv, admitted_vars) ==
    LET sel == IF sv.kind = "str" THEN ListArg(sv.v) ELSE sv
    IN  IF sel.kind = "None" THEN [err |-> "", selected_variables |-> admitted_vars]
        ELSE IF sel.kind = "list"
        THEN IF \A k \in DOMAIN sel.v : sel.v[k] \in Range(admitted_vars)
             THEN [err |-> "", selected_variables |-> sel.v]
             ELSE [err |-> "ValueError: variables not in admitted_vars",
                   selected_variables |-> <<>>]
        ELSE [err |-> "ValueError: selected variables must be a list",
              selected_variables |-> <<>>]

\* "check that selected variables are present in the database"
CtorSelected(sv, admitted_vars) ==
    LET sel == IF sv.kind = "str" THEN ListArg(sv.v) ELSE sv
    IN  IF sel.kind = "None" THEN [err |-> "", selected_variables |-> admitted_vars]
        ELSE IF sel.kind = "list" /\ Len(sel.v) > 0
        THEN IF \A k \in DOMAIN sel.v : sel.v[k] \in Range(admitted_vars)
             THEN [err |-> "", selected_variables |-> sel.v]
             ELSE [err |-> "ValueError: variables not in admitted_vars",
                   selected_variables |-> <<>>]
        ELSE [err |-> "ValueError: selected variables must be a list",
              selected_variables |-> <<>>]

\* Loader(db_list, db_type, selected_variables, db_rootpath), db_rootpath being
\* the root of fsys.
Loader(dl, dt, sv, fsys) ==
    LET a == CtorDbList(dl)
        b == CtorDbType(dt)
        p == SetDbRootpaths(a.db_list, fsys)
        u == UpdateDbList(a.db_list, p.db_paths, fsys)
        g == BuildGlobalSchema(u.db_list, p.db_paths, fsys)
        admitted_vars == Names(g.schema.fields)
        c == CtorSelected(sv, admitted_vars)
    IN  IF a.err # "" THEN NoLoader(a.err, 0)
        ELSE IF b.err # "" THEN NoLoader(b.err, 0)
        ELSE IF p.err # "" THEN NoLoader(p.err, p.warns)
        ELSE IF u.err # "" THEN NoLoader(u.err, p.warns + u.warns)
        ELSE IF g.err # "" THEN NoLoader(g.err, p.warns + u.warns + g.warns)
        ELSE IF g.schema.isNone
        THEN NoLoader("TypeError: global_schema is None", p.warns + u.warns + g.warns)
        ELSE IF c.err # "" THEN NoLoader(c.err, p.warns + u.warns + g.warns)
        ELSE [err |-> "", warns |-> p.warns + u.warns + g.warns,
              db_list |-> u.db_list, db_type |-> b.db_type, db_paths |-> p.db_paths,
              filters |-> NoneFilter, global_schema |-> g.schema,
              selected_variables |-> c.selected_variables]

\* ------------------------------------------------------------- set_filters

\* variables_in_filters: the first entry of every tuple of the filter.
VariablesInFilters(flt) == {c.var : c \in Range(AllComparisons(flt))}

\* A mutant: the filter is stored cut down to the selected variables.
SetFiltersResultValidating(f, reset_variables, selected) ==
    IF f.isNone THEN [filters |-> NoneFilter, selected_variables |-> selected]
    ELSE [filters |-> IF f.v = <<>> THEN f
                      ELSE ListFilter(ValidateFilters(f.v, selected).result),
          selected_variables |->
              IF reset_variables THEN SelectSeqBy(selected, VariablesInFilters(f.v))
              ELSE selected]

\* set_filters(filters, reset_variables): the fields it leaves behind.
SetFiltersResult(f, reset_variables, selected) ==
    IF f.isNone THEN [filters |-> NoneFilter, selected_variables |-> selected]
    ELSE [filters |-> f,
          selected_variables |->
              IF reset_variables THEN SelectSeqBy(selected, VariablesInFilters(f.v))
              ELSE selected]

\* ------------------------------------------------- pyarrow and pandas reads

\* self.dtype_mapping: the pandas dtype of each pyarrow type it has a key for.
DtypeMapping ==
    [t \in {"int8", "int16", "int32", "int64", "uint8", "uint16", "uint32", "uint64",
            "bool", "float32", "float64", "string", "timestamp[ns]"} |->
        IF t = "int8" THEN "int8[pyarrow]"
        ELSE IF t = "int16" THEN "int16[pyarrow]"
        ELSE IF t = "int32" THEN "int32[pyarrow]"
        ELSE IF t = "int64" THEN "int64[pyarrow]"
        ELSE IF t = "uint8" THEN "uint8[pyarrow]"
        ELSE IF t = "uint16" THEN "uint16[pyarrow]"
        ELSE IF t = "uint32" THEN "uint32[pyarrow]"
        ELSE IF t = "uint64" THEN "uint64[pyarrow]"
        ELSE IF t = "bool" THEN "bool[pyarrow]"
        ELSE IF t = "float32" THEN "float32[pyarrow]"
        ELSE IF t = "float64" THEN "float64[pyarrow]"
        ELSE IF t = "string" THEN "string[pyarrow]"
        ELSE "timestamp[ns][pyarrow]"]

\* The dtype of an all-NA column pandas builds from pd.NA.
ObjectDtype == "object"

\* The integers a pandas integer dtype holds.
Int16Min == -32768
Int16Max == 32767

Fits(v, dtype) ==
    \/ v.null
    \/ dtype # "int16[pyarrow]"
    \/ (v.i >= Int16Min /\ v.i <= Int16Max)

\* schema.get_field_index(col): the index of the field named col, Python's -1
\* when there is none (counted from 1 here, so 0).
GetFieldIndex(fields, col) ==
    IF \E i \in DOMAIN fields : fields[i].name = col
    THEN CHOOSE i \in DOMAIN fields : fields[i].name = col
    ELSE 0

\* schema.types[field_idx], Python's index -1 being the last type.
TypeAt(fields, idx) == IF idx = 0 THEN fields[Len(fields)].type ELSE fields[idx].type

\* pyarrow's check of a filters argument (ParquetDataset): None passes; an
\* empty list or an empty conjunction is malformed; a comparison on a column the
\* dataset's schema does not have matches no field.
PushdownError(f, db_schema) ==
    IF f.isNone THEN ""
    ELSE IF f.v = <<>> \/ \E k \in DOMAIN f.v : f.v[k].kind = "list" /\ f.v[k].items = <<>>
    THEN "ValueError: Malformed filters"
    ELSE IF \E c \in Range(AllComparisons(f.v)) : c.var \notin Range(Names(db_schema))
    THEN "ArrowInvalid: No match for FieldRef"
    ELSE ""

\* One comparison on one row of a dataset.
Holds(c, row, db_schema) ==
    LET v == row[GetFieldIndex(db_schema, c.var)]
    IN  /\ ~v.null
        /\ \/ c.op = "<" /\ v.i < c.val
           \/ c.op = ">" /\ v.i > c.val
           \/ c.op = "=" /\ v.i = c.val

\* A row passes a filter: every comparison of a flat list, or every comparison
\* of one of the inner lists.
Passes(f, row, db_schema) ==
    \/ f.isNone
    \/ /\ f.v # <<>>
       /\ f.v[1].kind = "tuple"
       /\ \A k \in DOMAIN f.v : Holds(f.v[k], row, db_schema)
    \/ \E k \in DOMAIN f.v :
          /\ f.v[k].kind = "list"
          /\ \A m \in DOMAIN f.v[k].items : Holds(f.v[k].items[m], row, db_schema)

RECURSIVE FilterRows(_, _, _)
FilterRows(rows, f, db_schema) ==
    IF rows = <<>> THEN <<>>
    ELSE IF Passes(f, Head(rows), db_schema)
         THEN <<Head(rows)>> \o FilterRows(Tail(rows), f, db_schema)
         ELSE FilterRows(Tail(rows), f, db_schema)

\* A dataframe of one database: its columns, their dtypes and its rows.
Frame(db, columns, dtypes, rows) ==
    [db |-> db, err |-> "", columns |-> columns, dtypes |-> dtypes, rows |-> rows]
FrameError(db, e) == [db |-> db, err |-> e, columns |-> <<>>, dtypes |-> <<>>, rows |-> <<>>]

\* read_db(local_path): the rows of the parquet files that pass the filter the
\* session holds when the read runs, cut to cols_to_read.
ReadDb(fsys, db, db_schema, cols_to_read, f) ==
    IF PushdownError(f, db_schema) # "" THEN FrameError(db, PushdownError(f, db_schema))
    ELSE LET kept == FilterRows(fsys[db].rows, f, db_schema)
             idx == [k \in DOMAIN cols_to_read |-> GetFieldIndex(db_schema, cols_to_read[k])]
         IN  Frame(db, cols_to_read,
                   [k \in DOMAIN cols_to_read |-> DtypeMapping[db_schema[idx[k]].type]],
                   [r \in DOMAIN kept |-> [k \in DOMAIN cols_to_read |-> kept[r][idx[k]]]])

\* A mutant: the added columns hold an empty string instead of pd.NA.
AssignNAEmptyString(df, cols_to_add) ==
    [df EXCEPT !.columns = @ \o cols_to_add,
               !.dtypes = @ \o [k \in DOMAIN cols_to_add |-> ObjectDtype],
               !.rows = [r \in DOMAIN @ |-> @[r] \o [k \in DOMAIN cols_to_add |-> StrV("")]]]

\* assign_NA(df, cols_to_add): a column of pd.NA for every name of cols_to_add.
AssignNA(df, cols_to_add) ==
    [df EXCEPT !.columns = @ \o cols_to_add,
               !.dtypes = @ \o [k \in DOMAIN cols_to_add |-> ObjectDtype],
               !.rows = [r \in DOMAIN @ |-> @[r] \o [k \in DOMAIN cols_to_add |-> NullV]]]

\* "Enforce column correct dtype": every column whose dtype differs from the
\* target's gets astype(pd_dtype), which raises on a value the dtype cannot hold.
EnforceDtypes(df, target) ==
    LET want == [k \in DOMAIN df.columns |-> target[k]]
    IN  IF \E r \in DOMAIN df.rows, k \in DOMAIN df.columns :
              df.dtypes[k] # want[k] /\ ~Fits(df.rows[r][k], want[k])
        THEN FrameError(df.db, "ArrowInvalid: Integer value not in range")
        ELSE [df EXCEPT !.dtypes = want]

\* A mutant: the columns stay in the order they were read and added.
SortColumnsSkip(df, sorted_cols) == df

\* sort_columns(df, sorted_cols): df[sorted_cols]
SortColumns(df, sorted_cols) ==
    LET idx == [k \in DOMAIN sorted_cols |->
                   CHOOSE i \in DOMAIN df.columns : df.columns[i] = sorted_cols[k]]
    IN  IF \E k \in DOMAIN sorted_cols : sorted_cols[k] \notin Range(df.columns)
        THEN FrameError(df.db, "KeyError: not in index")
        ELSE [df EXCEPT !.columns = sorted_cols,
                        !.dtypes = [k \in DOMAIN sorted_cols |-> df.dtypes[idx[k]]],
                        !.rows = [r \in DOMAIN @ |->
                                     [k \in DOMAIN sorted_cols |-> @[r][idx[k]]]]]

\* ------------------------------------------------------------ __read_db_pq

\* The part of __read_db_pq that runs when get_dataframe is called: the columns
\* to read and to add, dask's read of the first partition for the metadata of
\* from_map (under the filter held at that moment), the dtype each column is to
\* get, and the column order captured for sort_columns.
ReadDbPq(fsys, db_name, target_schema, selected, f) ==
    LET db_schema == ReadSchema(fsys, db_name)
        cols_to_read == SelectSeqBy(selected, Range(Names(db_schema)))
        cols_to_add == SelectSeqBy(selected, Range(selected) \ Range(Names(db_schema)))
        columns == cols_to_read \o cols_to_add
        pa_dtype == [k \in DOMAIN columns |->
                        TypeAt(target_schema.fields,
                               GetFieldIndex(target_schema.fields, columns[k]))]
        part == [db |-> db_name, err |-> "", db_schema |-> db_schema,
                 cols_to_read |-> cols_to_read, cols_to_add |-> cols_to_add,
                 pd_dtype |-> <<>>, sorted_cols |-> selected]
    IN  IF PushdownError(f, db_schema) # ""
        THEN [part EXCEPT !.err = PushdownError(f, db_schema)]
        ELSE IF "DB_NAME" \in Range(cols_to_add)
        THEN [part EXCEPT !.err = "UnboundLocalError: col"]
        ELSE IF \E k \in DOMAIN columns : pa_dtype[k] \notin DOMAIN DtypeMapping
        THEN [part EXCEPT !.err = "KeyError: dtype_mapping"]
        ELSE [part EXCEPT !.pd_dtype = [k \in DOMAIN columns |-> DtypeMapping[pa_dtype[k]]]]

\* The rows a partition of the lazy dataframe yields when it is computed:
\* read_db under the filter the session holds then, assign_NA, astype and
\* sort_columns as captured when the dataframe was built.
Materialise(fsys, part, f) ==
    LET df == ReadDb(fsys, part.db, part.db_schema, part.cols_to_read, f)
        padded == AssignNA(df, part.cols_to_add)
        typed == EnforceDtypes(padded, part.pd_dtype)
    IN  IF df.err # "" THEN df
        ELSE IF typed.err # "" THEN typed
        ELSE SortColumns(typed, part.sorted_cols)

\* ---------------------------------------------------- the lazy dataframe

NoDdf == [built |-> FALSE, parts |-> <<>>]
NoTable == [done |-> FALSE, parts |-> <<>>]
NoCall == [called |-> FALSE, filters |-> <<>>, valid_cols |-> <<>>, err |-> "",
           result |-> <<>>, discarded |-> <<>>, warns |-> 0]

\* The first error of a sequence of parts or frames, "" if none has one.
FirstError(parts) ==
    IF \E k \in DOMAIN parts : parts[k].err # ""
    THEN parts[CHOOSE k \in DOMAIN parts :
                  parts[k].err # "" /\ \A m \in 1..(k - 1) : parts[m].err = ""].err
    ELSE ""

\* dd.concat: the rows of the per-database frames, in db_list order.
RECURSIVE ConcatRows(_)
ConcatRows(frames) ==
    IF frames = <<>> THEN <<>> ELSE Head(frames).rows \o ConcatRows(Tail(frames))

\* ------------------------------------------------- construction of a Loader

DbListArgs ==
    {NoneArg, OtherArg}
    \cup {StrArg(x) : x \in RequestIds}
    \cup {ListArg(l) : l \in SeqsUpTo(Range(Databases), Len(Databases))}
    \cup {ListArg(<<"a">>), ListArg(<<"ARGO", "a">>)}

DbTypeArgs == {NoneArg, OtherArg, StrArg("bgc"), StrArg("xyz")}

\* selected_variables arguments: None, a string, another object, a list of up
\* to MaxSel distinct names, and a list that repeats a name.
SelectedArgs ==
    {NoneArg, OtherArg, ListArg(<<"X", "X">>)}
    \cup {StrArg(x) : x \in RequestNames}
    \cup {ListArg(l) : l \in {q \in SeqsUpTo(RequestNames, MaxSel) : IsInjective(q)}}

\* The calls of the constructor: every db_list under the other defaults, every
\* selected_variables under the default db_list and under a reordered one, and
\* every db_type under the other defaults.
CtorArgs ==
    {<<dl, NoneArg, NoneArg>> : dl \in DbListArgs}
    \cup {<<dl, NoneArg, sv>> : dl \in {NoneArg, ListArg(<<"GLODAP", "ARGO">>)},
                                sv \in SelectedArgs}
    \cup {<<NoneArg, dt, NoneArg>> : dt \in DbTypeArgs}

CallArgs(dl, dt, sv) == [db_list |-> dl, db_type |-> dt, selected_variables |-> sv]

InitCtor ==
    /\ fs \in FileSystems
    /\ pc = "new"
    /\ args = CallArgs(NoneArg, NoneArg, NoneArg)
    /\ err = ""
    /\ warned = 0
    /\ db_list = <<>>
    /\ db_type = NoDbType
    /\ db_paths = EmptyDict
    /\ filters = NoneFilter
    /\ global_schema = NoneSchema
    /\ selected_variables = <<>>
    /\ ddf = NoDdf
    /\ table = NoTable
    /\ vf = NoCall

Construct(dl, dt, sv) ==
    /\ pc = "new"
    /\ args' = CallArgs(dl, dt, sv)
    /\ LET o == Loader(dl, dt, sv, fs)
       IN  /\ pc' = IF o.err = "" THEN "ready" ELSE "failed"
           /\ err' = o.err
           /\ warned' = o.warns
           /\ db_list' = o.db_list
           /\ db_type' = o.db_type
           /\ db_paths' = o.db_paths
           /\ filters' = o.filters
           /\ global_schema' = o.global_schema
           /\ selected_variables' = o.selected_variables
    /\ UNCHANGED <<fs, ddf, table, vf>>

NextCtor == \E a \in CtorArgs : Construct(a[1], a[2], a[3])

SpecCtor == InitCtor /\ [][NextCtor]_vars

\* ------------------------------------------- calls of __validate_filters

\* The comparisons the filters of the model are made of.
Comparisons ==
    {Tup("X", "<", 10), Tup("W", ">", 0), Tup("X", "<", 5), Tup("X", ">", 100),
     Tup("Q", "=", 1)}

\* The comparisons of c that grp puts in conjunction k, in their order.
RECURSIVE GroupOf(_, _, _)
GroupOf(c, grp, k) ==
    IF c = <<>> THEN <<>>
    ELSE IF grp[1] = k
         THEN <<Head(c)>> \o GroupOf(Tail(c), Tail(grp), k)
         ELSE GroupOf(Tail(c), Tail(grp), k)

\* Flat filters: a list of up to n comparisons.
FlatFilters(n) == SeqsUpTo(Comparisons, n)

\* Nested filters: up to g conjunctions, the comparisons of a list of up to n
\* dealt to them in order; a conjunction may be empty.
NestedFilters(n, g) ==
    UNION {UNION {{[k \in 1..m |-> Lst(GroupOf(c, grp, k))]
                      : grp \in {d \in [DOMAIN c -> 1..m] :
                                    \A i, j \in DOMAIN c : i <= j => d[i] <= d[j]}}
                  : c \in SeqsUpTo(Comparisons, n)}
           : m \in 1..g}

ValidCols == {<<>>, <<"X">>, <<"W">>, <<"Q", "X">>, <<"X", "W">>, <<"X", "W", "Q">>}

InitFilter ==
    /\ fs = [db \in Range(Databases) |->
                [dirs |-> <<>>, meta |-> FALSE, schema |-> <<>>, rows |-> <<>>]]
    /\ pc = "new"
    /\ args = CallArgs(NoneArg, NoneArg, NoneArg)
    /\ err = ""
    /\ warned = 0
    /\ db_list = <<>>
    /\ db_type = NoDbType
    /\ db_paths = EmptyDict
    /\ filters = NoneFilter
    /\ global_schema = NoneSchema
    /\ selected_variables = <<>>
    /\ ddf = NoDdf
    /\ table = NoTable
    /\ \E f \in FlatFilters(MaxFilterLen) \cup NestedFilters(MaxFilterLen, MaxGroups),
          cols \in ValidCols :
          vf = [NoCall EXCEPT !.filters = f, !.valid_cols = cols]

CallValidateFilters ==
    /\ ~vf.called
    /\ LET r == ValidateFilters(vf.filters, vf.valid_cols)
       IN  vf' = [vf EXCEPT !.called = TRUE, !.err = r.err, !.result = r.result,
                            !.discarded = r.discarded, !.warns = r.warns]
    /\ UNCHANGED <<fs, pc, args, err, warned, db_list, db_type, db_paths, filters,
                   global_schema, selected_variables, ddf, table>>

NextFilter == CallValidateFilters

SpecFilter == InitFilter /\ [][NextFilter]_vars

\* ------------------------------------------------- a constructed session

\* The filters handed to set_filters.
SessionFilters ==
    {NoneFilter,
     ListFilter(<<>>),
     ListFilter(<<Tup("X", "<", 10)>>),
     ListFilter(<<Lst(<<Tup("X", "<", 5)>>), Lst(<<Tup("X", ">", 100)>>)>>)}

\* The calls of set_filters: every filter without reset_variables, and with it
\* the filters that leave different selections behind.
SetFiltersCalls ==
    {<<f, FALSE>> : f \in SessionFilters}
    \cup {<<ListFilter(<<>>), TRUE>>, <<ListFilter(<<Tup("X", "<", 10)>>), TRUE>>}

\* The selections a session is constructed with: None, or up to MaxSel distinct
\* names in any order.
Selections ==
    {NoneArg} \cup {ListArg(l) : l \in {q \in SeqsUpTo(RequestNames, MaxSel) : IsInjective(q)}}

\* A schema that declares its columns in the order X, Y, DB_NAME.
InCatalogOrder(schema) ==
    LET rank(n) == IF n = "X" THEN 1 ELSE IF n = "Y" THEN 2 ELSE 3
    IN  \A i, j \in DOMAIN schema : i < j => rank(schema[i].name) < rank(schema[j].name)

\* The disks a session is constructed over: every database is usable or
\* absent; ARGO declares its columns in any order, GLODAP in the order above.
SessionDisks ==
    {f \in FileSystems :
        /\ \A db \in DOMAIN f : f[db].meta \/ f[db].dirs = <<>>
        /\ InCatalogOrder(f["GLODAP"].schema)}

\* A Loader constructed with the default db_list and db_type over such a disk.
Init ==
    /\ fs \in SessionDisks
    /\ pc = "ready"
    /\ \E sv \in Selections :
          LET o == Loader(NoneArg, NoneArg, sv, fs)
          IN  /\ o.err = ""
              /\ args = CallArgs(NoneArg, NoneArg, sv)
              /\ warned = o.warns
              /\ db_list = o.db_list
              /\ db_type = o.db_type
              /\ db_paths = o.db_paths
              /\ filters = o.filters
              /\ global_schema = o.global_schema
              /\ selected_variables = o.selected_variables
    /\ err = ""
    /\ ddf = NoDdf
    /\ table = NoTable
    /\ vf = NoCall

SetFilters(f, reset_variables) ==
    /\ pc = "ready"
    /\ LET r == SetFiltersResult(f, reset_variables, selected_variables)
       IN  /\ filters' = r.filters
           /\ selected_variables' = r.selected_variables
    /\ err' = ""
    /\ warned' = 0
    /\ table' = NoTable
    /\ UNCHANGED <<fs, pc, args, db_list, db_type, db_paths, global_schema, ddf, vf>>

\* The size, in MB, under which get_dataframe(memory_check=True) returns the
\* computed dataframe; the disks of the model stay far below it.
MemoryLimitMB == 256

\* The loop of get_dataframe: __read_db_pq for every database of db_list.
RECURSIVE ReadAll(_, _, _, _, _)
ReadAll(fsys, dblist, schema, selected, f) ==
    IF dblist = <<>> THEN <<>>
    ELSE <<ReadDbPq(fsys, Head(dblist), schema, selected, f)>>
         \o ReadAll(fsys, Tail(dblist), schema, selected, f)

\* The partitions of the concatenated dataframe, computed in db_list order.
RECURSIVE MaterialiseAll(_, _, _)
MaterialiseAll(fsys, parts, f) ==
    IF parts = <<>> THEN <<>>
    ELSE <<Materialise(fsys, Head(parts), f)>> \o MaterialiseAll(fsys, Tail(parts), f)

\* What get_dataframe(memory_check) raises or returns for a session's fields:
\* the lazy dataframe, or its computed table when memory_check is set and the
\* data is under the limit.
GetDataframeResult(fsys, dblist, schema, selected, f, memory_check) ==
    LET parts == ReadAll(fsys, dblist, schema, selected, f)
        frames == MaterialiseAll(fsys, parts, f)
        lazy == [err |-> "", ddf |-> [built |-> TRUE, parts |-> parts], table |-> NoTable]
    IN  IF FirstError(parts) # ""
        THEN [err |-> FirstError(parts), ddf |-> NoDdf, table |-> NoTable]
        ELSE IF ~memory_check THEN lazy
        ELSE IF FirstError(frames) # ""
        THEN [err |-> FirstError(frames), ddf |-> NoDdf, table |-> NoTable]
        ELSE IF Len(ConcatRows(frames)) < MemoryLimitMB
        THEN [err |-> "", ddf |-> NoDdf, table |-> [done |-> TRUE, parts |-> frames]]
        ELSE lazy

\* A mutant: the call consumes the stored filter.
GetDataframeClearingFilters(memory_check) ==
    /\ pc = "ready"
    /\ LET r == GetDataframeResult(fs, db_list, global_schema, selected_variables,
                                   filters, memory_check)
       IN  /\ err' = r.err
           /\ ddf' = r.ddf
           /\ table' = r.table
    /\ warned' = 0
    /\ filters' = NoneFilter
    /\ UNCHANGED <<fs, pc, args, db_list, db_type, db_paths, global_schema,
                   selected_variables, vf>>

GetDataframe(memory_check) ==
    /\ pc = "ready"
    /\ LET r == GetDataframeResult(fs, db_list, global_schema, selected_variables,
                                   filters, memory_check)
       IN  /\ err' = r.err
           /\ ddf' = r.ddf
           /\ table' = r.table
    /\ warned' = 0
    /\ UNCHANGED <<fs, pc, args, db_list, db_type, db_paths, filters, global_schema,
                   selected_variables, vf>>

\* ddf.compute() on the dataframe get_dataframe returned last.
Compute ==
    /\ pc = "ready"
    /\ ddf.built
    /\ LET frames == MaterialiseAll(fs, ddf.parts, filters)
       IN  IF FirstError(frames) # ""
           THEN /\ err' = FirstError(frames)
                /\ table' = NoTable
           ELSE /\ err' = ""
                /\ table' = [done |-> TRUE, parts |-> frames]
    /\ warned' = 0
    /\ UNCHANGED <<fs, pc, args, db_list, db_type, db_paths, filters, global_schema,
                   selected_variables, ddf, vf>>

Next ==
    \/ \E c \in SetFiltersCalls : SetFilters(c[1], c[2])
    \/ \E memory_check \in BOOLEAN : GetDataframe(memory_check)
    \/ Compute

Spec == Init /\ [][Next]_vars

\* -------------------------------------------- claims on __validate_filters

Count(seq, c) == Cardinality({k \in DOMAIN seq : seq[k] = c})

\* C5: for a non-empty filter, flat or nested, the result of __validate_filters
\* holds only comparisons on columns of valid_cols, holds every input comparison
\* on such a column, and the diagnostics emitted are exactly the input
\* comparisons on other columns, one each.
C5_OnlyValidSurviveEachDiscardWarnedOnce ==
    (vf.called /\ vf.filters # <<>>) =>
        LET input == AllComparisons(vf.filters)
            output == AllComparisons(vf.result)
        IN  /\ vf.err = ""
            /\ \A k \in DOMAIN output : output[k].var \in Range(vf.valid_cols)
            /\ \A c \in Range(input) :
                  /\ c.var \in Range(vf.valid_cols) =>
                        /\ Count(output, c) = Count(input, c)
                        /\ Count(vf.discarded, c) = 0
                  /\ c.var \notin Range(vf.valid_cols) =>
                        /\ Count(output, c) = 0
                        /\ Count(vf.discarded, c) = Count(input, c)
            /\ Range(output) \cup Range(vf.discarded) \subseteq Range(input)
            /\ vf.warns = Cardinality({k \in DOMAIN input :
                                          input[k].var \notin Range(vf.valid_cols)})

C5_Witness ==
    /\ vf.called
    /\ Len(vf.filters) = 2
    /\ vf.filters[1].kind = "list"
    /\ vf.warns = 2
    /\ Len(AllComparisons(vf.result)) = 1

\* The shape the filter normaliser is to return: the branches of the input (a
\* flat input being one branch), each cut down to its comparisons on valid
\* columns, the empty ones left out, a single remaining one unwrapped.
ExpectedShape(flt, valid_cols) ==
    LET OnValid(c) == c.var \in Range(valid_cols)
        NonEmpty(g) == g # <<>>
        branches == IF flt[1].kind = "tuple" THEN <<flt>>
                    ELSE [k \in DOMAIN flt |-> flt[k].items]
        cut == [k \in DOMAIN branches |-> SelectSeq(branches[k], OnValid)]
        remaining == SelectSeq(cut, NonEmpty)
    IN  IF Len(remaining) = 1 THEN remaining[1]
        ELSE [k \in DOMAIN remaining |-> Lst(remaining[k])]

FlatExample == <<Tup("X", "<", 10), Tup("W", ">", 0)>>
NestedExample == <<Lst(<<Tup("X", "<", 5)>>), Lst(<<Tup("X", ">", 100), Tup("Q", "=", 1)>>)>>

\* C6: __validate_filters returns the branches of its input (a flat input being
\* one branch) with the comparisons on valid columns in their order, empty
\* branches removed, the branches in their order, and a single remaining branch
\* as a flat list; so the two examples of the specification come out as stated.
C6_NormalisedShape ==
    (vf.called /\ vf.filters # <<>>) =>
        /\ vf.result = ExpectedShape(vf.filters, vf.valid_cols)
        /\ (vf.filters = FlatExample /\ vf.valid_cols = <<"X">>)
              => vf.result = <<Tup("X", "<", 10)>>
        /\ (vf.filters = NestedExample /\ vf.valid_cols = <<"X", "W">>)
              => vf.result = <<Lst(<<Tup("X", "<", 5)>>), Lst(<<Tup("X", ">", 100)>>)>>

C6_Witness ==
    /\ vf.called
    /\ vf.filters = NestedExample
    /\ vf.valid_cols = <<"X", "W">>
    /\ vf.result = <<Lst(<<Tup("X", "<", 5)>>), Lst(<<Tup("X", ">", 100)>>)>>

\* ------------------------------------------------ claims on construction

\* The ids a constructor call asks for, in the order asked.
Requested == IF args.db_list.kind = "None" THEN Databases ELSE args.db_list.v

\* A database of the disk that resolves to one directory holding its metadata.
Usable(db) == db \in DOMAIN fs /\ Len(fs[db].dirs) = 1 /\ fs[db].meta

Ambiguous(db) == db \in DOMAIN fs /\ Len(fs[db].dirs) > 1

NoMatch(db) == db \in DOMAIN fs /\ Len(fs[db].dirs) = 0

\* The arguments pass the checks made before the directories are looked up.
ArgsAdmitted ==
    /\ args.db_list.kind \in {"None", "list", "str"}
    /\ Range(Requested) \subseteq Range(Databases)
    /\ \/ args.db_type.kind = "None"
       \/ args.db_type.kind = "str" /\ Upper(args.db_type.v[1]) \in {"PHY", "BGC"}

\* The column names the sources of the working set physically have.
PhysicalUnion == UNION {Range(Names(fs[db].schema)) : db \in Range(db_list)}

SchemaNames == Range(Names(global_schema.fields))

\* C7: after construction the names of global_schema are exactly the requested
\* selection intersected with the union of the present sources' physical columns.
C7_SchemaIsSelectionRestricted ==
    pc = "ready" => SchemaNames = Range(selected_variables) \cap PhysicalUnion

\* The first source of the working set, in its order, that declares name.
FirstDeclaring(name) ==
    LET k == CHOOSE m \in DOMAIN db_list :
                /\ name \in Range(Names(fs[db_list[m]].schema))
                /\ \A n \in 1..(m - 1) : name \notin Range(Names(fs[db_list[n]].schema))
    IN  db_list[k]

DeclaredType(db, name) ==
    LET sch == fs[db].schema
    IN  sch[CHOOSE i \in DOMAIN sch : sch[i].name = name].type

RECURSIVE UsableSubsequence(_)
UsableSubsequence(ids) ==
    IF ids = <<>> THEN <<>>
    ELSE IF Usable(Head(ids)) THEN <<Head(ids)>> \o UsableSubsequence(Tail(ids))
    ELSE UsableSubsequence(Tail(ids))

\* C9: each requested id is resolved on its own: no match drops it with a
\* warning, one match records the path, several matches abort the construction;
\* a constructed session's db_list is the requested ids that resolved to one
\* usable directory, in the order asked, each with a path in db_paths.
C9_SourceResolution ==
    /\ pc = "ready" =>
        /\ db_list = UsableSubsequence(Requested)
        /\ Range(db_list) \subseteq Range(Requested)
        /\ \A k \in DOMAIN db_list :
              /\ db_list[k] \in DOMAIN db_paths
              /\ db_paths[db_list[k]] = fs[db_list[k]].dirs[1]
        /\ \A k \in DOMAIN Requested : ~Ambiguous(Requested[k])
        /\ warned >= Cardinality({k \in DOMAIN Requested : ~Usable(Requested[k])})
    /\ (pc # "new" /\ ArgsAdmitted /\ \E k \in DOMAIN Requested : Ambiguous(Requested[k]))
          => pc = "failed" /\ err = "ValueError: multiple versions of database"

C9_Witness ==
    /\ pc = "ready"
    /\ Len(Requested) = 2
    /\ NoMatch(Requested[1])
    /\ db_list = <<Requested[2]>>
    /\ warned > 0

\* C10: when no requested id resolves to a usable source the construction
\* fails with the error of the empty working set; no session has an empty
\* db_list.
C10_NoEmptyWorkingSet ==
    /\ pc = "ready" => Len(db_list) > 0
    /\ (/\ pc # "new"
        /\ ArgsAdmitted
        /\ \A k \in DOMAIN Requested : ~Usable(Requested[k]) /\ ~Ambiguous(Requested[k]))
          => pc = "failed" /\ err = "ValueError: no database found"

C10_Witness ==
    /\ pc = "failed"
    /\ err = "ValueError: no database found"
    /\ Len(Requested) = 2
    /\ \A db \in DOMAIN fs : NoMatch(db)

\* ------------------------------------------------- add_units_to_schema

\* params.units["CROCOLAKE_UNITS"]: its keys in the order of the dictionary and
\* the units of each.
ReferenceKeys == <<"TEMP", "BBP", "QC", "DATA_MODE">>

ReferenceUnits ==
    [key \in Range(ReferenceKeys) |->
        IF key = "TEMP" THEN "degree_Celsius"
        ELSE IF key = "BBP" THEN "m-1"
        ELSE IF key = "QC" THEN "flag"
        ELSE "mode"]

\* Field names a schema may hold: a reference key, names that contain one, and
\* FOO, which contains none.
UnitNames == {"TEMP", "BBP_470", "TEMP_QC", "TEMP_DATA_MODE", "FOO"}

\* The words a field name is made of.
Words(name) ==
    IF name = "BBP_470" THEN {"BBP", "470"}
    ELSE IF name = "TEMP_QC" THEN {"TEMP", "QC"}
    ELSE IF name = "TEMP_DATA_MODE" THEN {"TEMP", "DATA_MODE"}
    ELSE {name}

\* key in name
Contains(key, name) == key \in Words(name)

\* ref_name before the loop binds it.
Unbound == "<unbound>"

\* The else branch of the loop: ref_name is bound to the name when it is a key,
\* to the first key the name contains if there is one, and is left as the
\* earlier fields of the loop left it otherwise.
RefName(name, ref_name) ==
    IF name \in Range(ReferenceKeys) THEN name
    ELSE IF \E k \in DOMAIN ReferenceKeys : Contains(ReferenceKeys[k], name)
    THEN ReferenceKeys[CHOOSE k \in DOMAIN ReferenceKeys :
                          /\ Contains(ReferenceKeys[k], name)
                          /\ \A m \in 1..(k - 1) : ~Contains(ReferenceKeys[m], name)]
    ELSE ref_name

\* The loop over the fields of the schema: the fields annotated so far, the
\* ref_name the loop carries, and the error that ends it.
RECURSIVE AddUnitsFrom(_, _, _)
AddUnitsFrom(fields, ref_name, acc) ==
    IF fields = <<>> THEN [err |-> "", fields |-> acc]
    ELSE LET field == Head(fields)
             ref == RefName(field.name, ref_name)
         IN  IF Contains("QC", field.name)
             THEN AddUnitsFrom(Tail(fields), ref_name,
                               Append(acc, [field EXCEPT !.units = ReferenceUnits["QC"]]))
             ELSE IF Contains("DATA_MODE", field.name)
             THEN AddUnitsFrom(Tail(fields), ref_name,
                               Append(acc, [field EXCEPT !.units = ReferenceUnits["DATA_MODE"]]))
             ELSE IF ref = Unbound
             THEN [err |-> "UnboundLocalError: ref_name", fields |-> acc]
             ELSE IF ref \in Range(ReferenceKeys)
             THEN AddUnitsFrom(Tail(fields), ref,
                               Append(acc, [field EXCEPT !.units = ReferenceUnits[ref]]))
             ELSE [err |-> "ValueError: units not found", fields |-> acc]

\* add_units_to_schema(): the error it raises and the schema it leaves.
AddUnits(schema) ==
    IF schema.isNone THEN [err |-> "ValueError: global schema is not defined", schema |-> schema]
    ELSE LET r == AddUnitsFrom(schema.fields, Unbound, <<>>)
         IN  IF r.err # "" THEN [err |-> r.err, schema |-> schema]
             ELSE [err |-> "", schema |-> PaSchema(r.fields)]

\* A session constructed over a disk where ARGO declares up to MaxUnitFields
\* of the names above.
UnitDisks ==
    {[db \in Range(Databases) |->
         IF db = "ARGO"
         THEN [dirs |-> SubSeq(DirNames(db), 1, 1), meta |-> TRUE,
               schema |-> [i \in DOMAIN q |-> Field(q[i], "float64")], rows |-> <<>>]
         ELSE [dirs |-> <<>>, meta |-> FALSE, schema |-> <<>>, rows |-> <<>>]]
        : q \in {n \in SeqsUpTo(UnitNames, MaxUnitFields) : n # <<>> /\ IsInjective(n)}}

InitUnits ==
    /\ fs \in UnitDisks
    /\ pc = "ready"
    /\ LET o == Loader(NoneArg, NoneArg, NoneArg, fs)
       IN  /\ o.err = ""
           /\ args = CallArgs(NoneArg, NoneArg, NoneArg)
           /\ warned = o.warns
           /\ db_list = o.db_list
           /\ db_type = o.db_type
           /\ db_paths = o.db_paths
           /\ filters = o.filters
           /\ global_schema = o.global_schema
           /\ selected_variables = o.selected_variables
    /\ err = ""
    /\ ddf = NoDdf
    /\ table = NoTable
    /\ vf = NoCall

AddUnitsToSchema ==
    /\ pc = "ready"
    /\ LET r == AddUnits(global_schema)
       IN  /\ err' = r.err
           /\ global_schema' = r.schema
    /\ warned' = 0
    /\ UNCHANGED <<fs, pc, args, db_list, db_type, db_paths, filters, selected_variables,
                   ddf, table, vf>>

NextUnits == AddUnitsToSchema

SpecUnits == InitUnits /\ [][NextUnits]_vars

\* ------------------------------------------------ claims on get_dataframe

\* The physical column names of a source.
Physical(db) == Range(Names(ReadSchema(fs, db)))

\* A per-source frame holds every name of a selection, and null in every row of
\* every selected column its source lacks, DB_NAME aside.
PaddedWithNull(fr, selection) ==
    /\ Range(selection) \subseteq Range(fr.columns)
    /\ \A k \in DOMAIN fr.columns :
          (/\ fr.columns[k] \in Range(selection)
           /\ fr.columns[k] \notin Physical(fr.db)
           /\ fr.columns[k] # "DB_NAME")
             => \A r \in DOMAIN fr.rows : fr.rows[r][k] = NullV

\* The steps that leave a result behind: get_dataframe(memory_check=True)
\* returning the computed table, get_dataframe() returning the lazy dataframe,
\* and compute() on that dataframe returning its table.
Eager == table'.done /\ ~ddf'.built
Lazy == ddf'.built /\ ~table'.done /\ filters' = filters
Computed == table'.done /\ ddf'.built

\* C1: every per-source table get_dataframe produces, at once or when the lazy
\* dataframe is computed, contains every name selected when get_dataframe was
\* called, and holds null in every row of every selected column the source does
\* not have, DB_NAME aside.
C1_MissingColumnsAreNull ==
    [][/\ (Eager /\ GetDataframe(TRUE)) =>
              /\ Len(table'.parts) = Len(db_list)
              /\ \A k \in DOMAIN table'.parts :
                    /\ table'.parts[k].db = db_list[k]
                    /\ PaddedWithNull(table'.parts[k], selected_variables)
       /\ (Computed /\ Compute) =>
              /\ Len(table'.parts) = Len(ddf.parts)
              /\ \A k \in DOMAIN table'.parts :
                    /\ table'.parts[k].db = ddf.parts[k].db
                    /\ PaddedWithNull(table'.parts[k], ddf.parts[k].sorted_cols)
       /\ (Lazy /\ GetDataframe(FALSE)) =>
              \A k \in DOMAIN ddf'.parts : ddf'.parts[k].sorted_cols = selected_variables
      ]_vars

\* Two sources with disjoint columns, both selected: each one's rows hold null
\* in the other's column.
C1_Witness ==
    /\ table.done
    /\ Len(table.parts) = 2
    /\ Physical(table.parts[1].db) = {"X"}
    /\ Physical(table.parts[2].db) = {"Y"}
    /\ \A k \in 1..2 :
          /\ table.parts[k].columns = <<"X", "Y">>
          /\ table.parts[k].rows # <<>>
    /\ table.parts[1].rows[1][2] = NullV
    /\ table.parts[2].rows[1][1] = NullV

\* C2: the columns of every per-source table get_dataframe produces, at once or
\* when the lazy dataframe is computed, are the selected_variables of the call:
\* the same names in the same order, none twice, whatever order the source
\* keeps them in.
C2_ColumnsAreSelectionInOrder ==
    [][/\ (Eager /\ GetDataframe(TRUE)) =>
              \A k \in DOMAIN table'.parts :
                  /\ table'.parts[k].columns = selected_variables
                  /\ IsInjective(table'.parts[k].columns)
                  /\ \A r \in DOMAIN table'.parts[k].rows :
                        Len(table'.parts[k].rows[r]) = Len(selected_variables)
       /\ (Lazy /\ GetDataframe(FALSE)) =>
              \A k \in DOMAIN ddf'.parts : ddf'.parts[k].sorted_cols = selected_variables
       /\ (Computed /\ Compute) =>
              \A k \in DOMAIN table'.parts :
                  /\ table'.parts[k].columns = ddf.parts[k].sorted_cols
                  /\ IsInjective(table'.parts[k].columns)
                  /\ \A r \in DOMAIN table'.parts[k].rows :
                        Len(table'.parts[k].rows[r]) = Len(ddf.parts[k].sorted_cols)
      ]_vars

\* A source that keeps Y before X, read for the selection X, Y, next to a source
\* that has only Y.
C2_Witness ==
    /\ table.done
    /\ Len(table.parts) = 2
    /\ Names(ReadSchema(fs, table.parts[1].db)) = <<"Y", "X">>
    /\ Names(ReadSchema(fs, table.parts[2].db)) = <<"Y">>
    /\ \A k \in 1..2 :
          /\ table.parts[k].columns = <<"X", "Y">>
          /\ table.parts[k].rows # <<>>
          /\ table.parts[k].rows[1][2] = StrV("a")

\* The pandas dtype of the type global_schema records for a column name.
CanonicalDtype(name) ==
    DtypeMapping[TypeAt(global_schema.fields, GetFieldIndex(global_schema.fields, name))]

\* C3: every column of every per-source table has the dtype of the type the
\* global schema records for its name, and the coercion to it never fails.
C3_OneCanonicalTypeCoercionNeverFails ==
    /\ err # "ArrowInvalid: Integer value not in range"
    /\ table.done =>
          \A k \in DOMAIN table.parts :
              \A c \in DOMAIN table.parts[k].columns :
                  table.parts[k].dtypes[c] = CanonicalDtype(table.parts[k].columns[c])

\* C4: a stored filter that compares a column some source of the working set
\* cannot read is cut down to that source's cols_to_read and its read proceeds:
\* get_dataframe and the computation of its result do not fail on the column the
\* source lacks.
C4_ReadProceedsWithReducedFilter ==
    (/\ ~filters.isNone
     /\ filters.v # <<>>
     /\ \E k \in DOMAIN db_list :
           VariablesInFilters(filters.v) \ Physical(db_list[k]) # {})
       => err # "ArrowInvalid: No match for FieldRef"

\* ------------------------------------- claims on the selection and arguments

\* C11: in every state of a constructed session selected_variables is
\* non-empty and holds only names of the global schema.
C11_SelectionNonEmptyAndAdmitted ==
    pc = "ready" =>
        /\ Len(selected_variables) > 0
        /\ Range(selected_variables) \subseteq SchemaNames

\* The names the sources that resolve for a constructor call declare.
AdmittedOnDisk ==
    UNION {Range(Names(fs[db].schema)) : db \in Range(UsableSubsequence(Requested))}

\* A constructor call that gets as far as the check of selected_variables.
SelectionReached ==
    /\ pc # "new"
    /\ ArgsAdmitted
    /\ \A k \in DOMAIN Requested : ~Ambiguous(Requested[k])
    /\ \E k \in DOMAIN Requested : Usable(Requested[k])

\* C12: a constructor call that reaches the check of selected_variables fails
\* with a ValueError on an empty list and on any name that is not admitted;
\* a non-empty list of admitted names is stored as given, a string as a list of
\* one name, and None as all admitted names.
C12_SelectionArgument ==
    SelectionReached =>
        LET sv == args.selected_variables
        IN  /\ sv.kind = "None" =>
                  /\ pc = "ready"
                  /\ selected_variables = Names(global_schema.fields)
                  /\ Range(selected_variables) = AdmittedOnDisk
            /\ (sv.kind = "list" /\ sv.v = <<>>) =>
                  /\ pc = "failed"
                  /\ err = "ValueError: selected variables must be a list"
            /\ (sv.kind \in {"list", "str"} /\ ~(Range(sv.v) \subseteq AdmittedOnDisk)) =>
                  /\ pc = "failed"
                  /\ err = "ValueError: variables not in admitted_vars"
            /\ (sv.kind = "list" /\ sv.v # <<>> /\ Range(sv.v) \subseteq AdmittedOnDisk) =>
                  /\ pc = "ready"
                  /\ selected_variables = sv.v
            /\ (sv.kind = "str" /\ Range(sv.v) \subseteq AdmittedOnDisk) =>
                  /\ pc = "ready"
                  /\ selected_variables = <<sv.v[1]>>

\* A list stored in the order asked, which is not the order of the schema.
C12_Witness ==
    /\ pc = "ready"
    /\ args.selected_variables = ListArg(<<"Y", "X">>)
    /\ selected_variables = <<"Y", "X">>
    /\ Names(global_schema.fields) = <<"X", "Y">>

\* The errors the constructor raises on its arguments.
ConfigurationErrors ==
    {"ValueError: db_list must be a list or a string",
     "ValueError: db_list can only take values in databases",
     "ValueError: db_type must be one of PHY, BGC"}

\* C13: a db_list that is neither a list nor a string or holds an id outside
\* the catalog, and a db_type other than PHY or BGC in any case, make the
\* constructor fail with a configuration error; a constructed session has a
\* list of catalog ids as db_list and "PHY" or "BGC" as db_type.
C13_ArgumentsRejectedWithConfigurationError ==
    /\ (pc # "new" /\ ~ArgsAdmitted) =>
          /\ pc = "failed"
          /\ err \in ConfigurationErrors
    /\ pc = "ready" =>
          /\ Range(db_list) \subseteq Range(Databases)
          /\ db_type \in {"PHY", "BGC"}
          /\ args.db_list.kind = "str" => db_list = args.db_list.v
          /\ args.db_type.kind = "None" => db_type = "PHY"

\* ------------------------------------------------- claims on set_filters

\* C14: the filter a session stores holds no comparison on a name that is not
\* a variable of the session: set_filters deletes those comparisons.
C14_StoredFilterHoldsOnlyValidNames ==
    (pc = "ready" /\ ~filters.isNone) =>
        \A c \in Range(AllComparisons(filters.v)) : c.var \in SchemaNames

C16_DbNameFilledForSourcesLackingIt ==
    /\ err # "UnboundLocalError: col"
    /\ table.done =>
          \A k \in DOMAIN table.parts :
              LET fr == table.parts[k]
              IN  \A c \in DOMAIN fr.columns :
                      fr.columns[c] = "DB_NAME" =>
                          /\ \A r \in DOMAIN fr.rows : fr.rows[r][c] = StrV(fr.db)
                          /\ \A d \in DOMAIN fr.columns : fr.columns[d] = "DB_NAME" => d = c

\* C17: with no filter stored, or an empty one, get_dataframe and the
\* computation of its result raise nothing about the filter, and every table
\* produced holds every row its source has on disk.
C17_NoFilterReadsEverything ==
    (filters.isNone \/ filters.v = <<>>) =>
        /\ err # "ValueError: Malformed filters"
        /\ table.done =>
              \A k \in DOMAIN table.parts :
                  Len(table.parts[k].rows) = Len(fs[table.parts[k].db].rows)

\* ----------------------------------------- claims on repeated and lazy reads

\* What a step of get_dataframe(memory_check) leaves in err, ddf and table: an
\* error and no result, the lazy dataframe, or with memory_check the table.
Returned(memory_check) ==
    \/ err' # "" /\ ~ddf'.built /\ ~table'.done
    \/ err' = "" /\ ddf'.built /\ ~table'.done
    \/ memory_check /\ err' = "" /\ ~ddf'.built /\ table'.done

\* C18: get_dataframe changes no field of the session, and a second call on
\* the session it leaves behind raises or returns what the first did: the same
\* columns in the same order, with the same dtypes and rows.
C18_GetDataframeIdempotentReadOnly ==
    [][\A memory_check \in BOOLEAN :
          (Returned(memory_check) /\ GetDataframe(memory_check)) =>
              /\ UNCHANGED <<fs, db_list, db_type, db_paths, selected_variables, filters,
                             global_schema>>
              /\ LET again == GetDataframeResult(fs', db_list', global_schema',
                                                 selected_variables', filters', memory_check)
                 IN  /\ again.err = err'
                     /\ again.ddf = ddf'
                     /\ again.table = table'
      ]_vars

\* A table computed under a stored filter that keeps some rows and drops others.
C18_Witness ==
    /\ table.done
    /\ ~ddf.built
    /\ filters = ListFilter(<<Tup("X", "<", 10)>>)
    /\ \E k \in DOMAIN table.parts :
          /\ table.parts[k].rows # <<>>
          /\ Len(table.parts[k].rows) < Len(fs[table.parts[k].db].rows)

\* C19: what the lazy dataframe returned by get_dataframe yields when it is
\* computed is fixed when get_dataframe returns: a set_filters after it does
\* not change the rows a computation that succeeds yields.
C19_LazyTableFixedAtCall ==
    [][(ddf.built /\ ddf' = ddf) =>
          LET before == MaterialiseAll(fs, ddf.parts, filters)
              after == MaterialiseAll(fs', ddf'.parts, filters')
          IN  (FirstError(before) = "" /\ FirstError(after) = "") => after = before
      ]_vars

\* ------------------------------------------ claims on add_units_to_schema

\* A field name with no reference entry of its own: it holds neither QC nor
\* DATA_MODE, is no reference key and contains none.
NoReference(name) == \A k \in DOMAIN ReferenceKeys : ~Contains(ReferenceKeys[k], name)

\* C20: a schema with a field that has no reference entry of its own is never
\* annotated, wherever that field sits: the call fails and leaves the schema as
\* it was, so no field of it carries units, least of all the units matched for
\* an earlier field; and the call changes no name, order or type.
C20_NoUnitsFromAnotherField ==
    /\ (\E i \in DOMAIN global_schema.fields : NoReference(global_schema.fields[i].name)) =>
          \A j \in DOMAIN global_schema.fields : global_schema.fields[j].units = NoUnits
    /\ [i \in DOMAIN global_schema.fields |->
           [name |-> global_schema.fields[i].name, type |-> global_schema.fields[i].type]]
         = [i \in DOMAIN fs["ARGO"].schema |->
               [name |-> fs["ARGO"].schema[i].name, type |-> fs["ARGO"].schema[i].type]]

====
